---- MODULE Spec2Model ----
(***************************************************************************)
(* logic-sim: the circuit evaluation engine of src/src/main.rs.            *)
(*                                                                         *)
(* A Simulation owns a counter, a map of gate states keyed by id and an    *)
(* ordered list of connections.  simulate() first copies, connection by    *)
(* connection, a source output into a destination input, then runs every   *)
(* gate's update.  Slots are 0-based as in the source: a buffer of n       *)
(* booleans is a function on 0..n-1.  main registers five gates and then,  *)
(* frame by frame, connects what the user selected, converts the time      *)
(* elapsed into a number of simulate() calls and takes new selections.     *)
(***************************************************************************)
EXTENDS Integers, Sequences, FiniteSets, TLC

VARIABLES
    counter,      \* Simulation.counter
    gates,        \* Simulation.gates: id -> [kind, inputs, outputs]
    connections,  \* Simulation.connections: sequence of <<from, output, to, input>>
    status,       \* "running", or "panicked" once an unwrap or an index failed
    ret,          \* the last call: [op, arg, val]
    pre,          \* the gates as the last call found them, when it was simulate()
    selected_input,     \* main: << >> (None) or <<gate id, input slot>>
    selected_output,    \* main: << >> (None) or <<gate id, output slot>>
    time,               \* main: the value get_time() returned last, in quanta
    last_update,        \* main: last_update, in quanta
    frequency,          \* main: frequency, in Hz
    elapsed_remainder,  \* main: elapsed_remainder, in Scale-ths of a tick
    ticks,              \* the simulate() calls main has made so far
    steady              \* the slider has not changed the frequency so far

\* The variables of main's loop; the operations of Simulation leave them alone.
main_vars == <<selected_input, selected_output, time, last_update, frequency,
               elapsed_remainder, ticks, steady>>

vars == <<counter, gates, connections, status, ret, pre, selected_input,
          selected_output, time, last_update, frequency, elapsed_remainder,
          ticks, steady>>

\* Bounds of the model: the number of gates plus connections of the circuits
\* explored, under arbitrary arguments (Spec) and under valid wiring (WiredSpec).
\* MaxNotCircuit bounds the circuits of NOT gates (ChainSpec), TicksAhead the
\* number of consecutive ticks a formula follows.
MaxApiCircuit == 3
MaxCircuit == 4
MaxNotCircuit == 6
TicksAhead == 2
\* MaxBench bounds the gates of the bench on which single evaluations are run.
MaxBench == 2
\* Bounds of main's loop: MaxTime the time get_time() reaches, in quanta;
\* MaxFrame the length of an ordinary frame; FrameTime the length of a frame
\* while the user wires; MaxWires the wires the user draws; MaxPointed the
\* gates, from NOT on, the pointer is pressed over.
MaxTime == 22
MaxFrame == 3
FrameTime == 4
MaxWires == 1
MaxPointed == 3

\* ---------------------------------------------------------------- gates

Kinds == {"AND", "AND3", "OR", "XOR", "NOT"}

\* const INPUTS of each impl Gate<INPUTS, OUTPUTS>
INPUTS(kind) ==
    CASE kind = "AND"  -> 2
      [] kind = "AND3" -> 3
      [] kind = "OR"   -> 2
      [] kind = "XOR"  -> 2
      [] kind = "NOT"  -> 1

\* const OUTPUTS of each impl Gate<INPUTS, OUTPUTS>
OUTPUTS(kind) ==
    CASE kind = "AND"  -> 1
      [] kind = "AND3" -> 1
      [] kind = "OR"   -> 1
      [] kind = "XOR"  -> 1
      [] kind = "NOT"  -> 1

\* [false; N]
AllFalse(n) == [i \in 0..(n - 1) |-> FALSE]

And_update(inputs, outputs) == [outputs EXCEPT ![0] = inputs[0] /\ inputs[1]]

And3_update(inputs, outputs) ==
    [outputs EXCEPT ![0] = inputs[0] /\ inputs[1] /\ inputs[2]]

Or_update(inputs, outputs) == [outputs EXCEPT ![0] = inputs[0] \/ inputs[1]]

\* Xor::update computing an inclusive or.
Xor_updateInclusive(inputs, outputs) == [outputs EXCEPT ![0] = inputs[0] \/ inputs[1]]

Xor_update(inputs, outputs) == [outputs EXCEPT ![0] = inputs[0] # inputs[1]]

\* Not::update keeping state: the output flips at every update, whatever the
\* input.
Not_updateToggle(inputs, outputs) == [outputs EXCEPT ![0] = ~outputs[0]]

\* Not::update without the negation.
Not_updateBuffer(inputs, outputs) == [outputs EXCEPT ![0] = inputs[0]]

Not_update(inputs, outputs) == [outputs EXCEPT ![0] = ~inputs[0]]

\* the boxed closure add_gate builds: dispatch on the gate's type
update_fn(kind, inputs, outputs) ==
    CASE kind = "AND"  -> And_update(inputs, outputs)
      [] kind = "AND3" -> And3_update(inputs, outputs)
      [] kind = "OR"   -> Or_update(inputs, outputs)
      [] kind = "XOR"  -> Xor_update(inputs, outputs)
      [] kind = "NOT"  -> Not_update(inputs, outputs)

\* GateState::update
GateState_update(state) ==
    [state EXCEPT !.outputs = update_fn(state.kind, state.inputs, state.outputs)]

\* HashMap::insert
insert(map, k, v) == [x \in (DOMAIN map) \cup {k} |-> IF x = k THEN v ELSE map[x]]

\* ---------------------------------------------------------------- simulate

\* PropagateOne with the destination gate updated as soon as its input is
\* written: a one-pass simulate, in which a later connection reads an output
\* computed during this tick.
PropagateOneEager(g, c) ==
    LET from == c[1]
        output == c[2]
        to == c[3]
        input == c[4]
    IN  IF from \notin DOMAIN g THEN [ok |-> FALSE, gates |-> g]
        ELSE IF output \notin DOMAIN g[from].outputs THEN [ok |-> FALSE, gates |-> g]
        ELSE IF to \notin DOMAIN g THEN [ok |-> FALSE, gates |-> g]
        ELSE IF input \notin DOMAIN g[to].inputs THEN [ok |-> FALSE, gates |-> g]
        ELSE [ok |-> TRUE,
              gates |-> [g EXCEPT ![to] = GateState_update(
                             [@ EXCEPT !.inputs[input] = g[from].outputs[output]])]]

\* PropagateOne storing into the input buffer without a bounds check: a slot
\* the buffer does not have is added to it.
PropagateOneUnchecked(g, c) ==
    LET from == c[1]
        output == c[2]
        to == c[3]
        input == c[4]
    IN  IF from \notin DOMAIN g THEN [ok |-> FALSE, gates |-> g]
        ELSE IF output \notin DOMAIN g[from].outputs THEN [ok |-> FALSE, gates |-> g]
        ELSE IF to \notin DOMAIN g THEN [ok |-> FALSE, gates |-> g]
        ELSE [ok |-> TRUE,
              gates |-> [g EXCEPT ![to].inputs =
                           [i \in (DOMAIN @) \cup {input} |->
                              IF i = input THEN g[from].outputs[output] ELSE @[i]]]]

\* PropagateOne writing the source value into every input slot of the
\* destination gate, not only into the one the connection names.
PropagateOneAllSlots(g, c) ==
    LET from == c[1]
        output == c[2]
        to == c[3]
        input == c[4]
    IN  IF from \notin DOMAIN g THEN [ok |-> FALSE, gates |-> g]
        ELSE IF output \notin DOMAIN g[from].outputs THEN [ok |-> FALSE, gates |-> g]
        ELSE IF to \notin DOMAIN g THEN [ok |-> FALSE, gates |-> g]
        ELSE IF input \notin DOMAIN g[to].inputs THEN [ok |-> FALSE, gates |-> g]
        ELSE [ok |-> TRUE,
              gates |-> [g EXCEPT ![to].inputs =
                           [i \in DOMAIN @ |-> g[from].outputs[output]]]]

\* One connection of the first loop; ok is FALSE when an unwrap or an index
\* panics.
PropagateOne(g, c) ==
    LET from == c[1]
        output == c[2]
        to == c[3]
        input == c[4]
    IN  IF from \notin DOMAIN g THEN [ok |-> FALSE, gates |-> g]
        ELSE IF output \notin DOMAIN g[from].outputs THEN [ok |-> FALSE, gates |-> g]
        ELSE IF to \notin DOMAIN g THEN [ok |-> FALSE, gates |-> g]
        ELSE IF input \notin DOMAIN g[to].inputs THEN [ok |-> FALSE, gates |-> g]
        ELSE [ok |-> TRUE,
              gates |-> [g EXCEPT ![to].inputs[input] = g[from].outputs[output]]]

RECURSIVE PropagateBackwards(_, _, _)
\* Propagate walking the table from its end to its start, so that of several
\* connections into one slot the first added wins.
PropagateBackwards(g, conns, i) ==
    IF i > Len(conns) THEN [ok |-> TRUE, gates |-> g]
    ELSE LET r == PropagateOne(g, conns[Len(conns) + 1 - i])
         IN  IF r.ok THEN PropagateBackwards(r.gates, conns, i + 1) ELSE r

RECURSIVE Propagate(_, _, _)
\* for (from, output, to, input) in &self.connections { ... }, from index i on
Propagate(g, conns, i) ==
    IF i > Len(conns) THEN [ok |-> TRUE, gates |-> g]
    ELSE LET r == PropagateOne(g, conns[i])
         IN  IF r.ok THEN Propagate(r.gates, conns, i + 1) ELSE r

\* Evaluate leaving the loop after the first gate it visits.
EvaluateFirstOnly(g, order) ==
    IF order = << >> THEN g
    ELSE [g EXCEPT ![Head(order)] = GateState_update(@)]

RECURSIVE Evaluate(_, _)
\* for (_, state) in &mut self.gates { state.update() }, visiting ids in `order`
Evaluate(g, order) ==
    IF order = <<>> THEN g
    ELSE Evaluate([g EXCEPT ![Head(order)] = GateState_update(@)], Tail(order))

RECURSIVE Ascending(_)
Ascending(ids) ==
    IF ids = {} THEN << >>
    ELSE LET m == CHOOSE x \in ids : \A y \in ids : x <= y
         IN  <<m>> \o Ascending(ids \ {m})

Reverse(s) == [i \in 1..Len(s) |-> s[Len(s) + 1 - i]]

Rotate(s, k) == [i \in 1..Len(s) |-> s[((i - 1 + k) % Len(s)) + 1]]

\* The orders in which the HashMap's iterator may visit the keys `ids`.  The
\* iterator's order is unspecified; the model takes every rotation of the
\* ascending and of the descending order, which puts every gate at every
\* position and every pair of gates both ways round (for up to three gates
\* these are all the orders there are).
Orders(ids) ==
    IF ids = {} THEN {<< >>}
    ELSE LET a == Ascending(ids)
         IN  {Rotate(a, k) : k \in 0..(Len(a) - 1)}
               \cup {Rotate(Reverse(a), k) : k \in 0..(Len(a) - 1)}

RECURSIVE TickOnePass(_, _, _)
\* simulate() written as a single pass over the gates instead of two: each gate
\* in `order` takes its inputs from the outputs as they are by then and is
\* updated at once.
TickOnePass(g, conns, order) ==
    IF order = << >> THEN [ok |-> TRUE, gates |-> g]
    ELSE LET into == SelectSeq(conns, LAMBDA c : c[3] = Head(order))
             p == Propagate(g, into, 1)
         IN  IF p.ok
             THEN TickOnePass([p.gates EXCEPT ![Head(order)] = GateState_update(@)],
                              conns, Tail(order))
             ELSE p

\* The whole of simulate() for one visiting order of the gate map.
Tick(g, conns, order) ==
    LET p == Propagate(g, conns, 1)
    IN  IF p.ok THEN [ok |-> TRUE, gates |-> Evaluate(p.gates, order)] ELSE p

RECURSIVE TickN(_, _, _, _)
\* for _ in 0..iterations { sim.simulate() }
TickN(g, conns, order, n) ==
    IF n = 0 THEN [ok |-> TRUE, gates |-> g]
    ELSE LET r == Tick(g, conns, order)
         IN  IF r.ok THEN TickN(r.gates, conns, order, n - 1) ELSE r

\* ---------------------------------------------------------------- operations

\* The quanta of time in a second: get_time() is read in twentieths of a second.
QuantaPerSecond == 20

\* The fractions of a tick that iterations and elapsed_remainder are kept in.
Scale == 4

\* let mut frequency = 10f32
InitialFrequency == 10

\* main's locals as lines 246-253 initialise them; get_time() starts at 0.
MainLocals ==
    /\ selected_input = << >>
    /\ selected_output = << >>
    /\ time = 0
    /\ last_update = 0
    /\ frequency = InitialFrequency
    /\ elapsed_remainder = 0
    /\ ticks = 0
    /\ steady = TRUE

Init ==
    /\ counter = 0
    /\ gates = << >>
    /\ connections = << >>
    /\ status = "running"
    /\ ret = [op |-> "new", arg |-> << >>, val |-> << >>]
    /\ pre = << >>
    /\ MainLocals

\* add_gate without self.counter += 1: the next gate takes the same id.
add_gateSameId(kind) ==
    /\ status = "running"
    /\ gates' = insert(gates, counter,
                       [kind |-> kind,
                        inputs |-> AllFalse(INPUTS(kind)),
                        outputs |-> AllFalse(OUTPUTS(kind))])
    /\ ret' = [op |-> "add_gate", arg |-> <<kind>>, val |-> << >>]
    /\ pre' = << >>
    /\ UNCHANGED <<counter, connections, status>>
    /\ UNCHANGED main_vars

add_gate(kind) ==
    /\ status = "running"
    /\ gates' = insert(gates, counter,
                       [kind |-> kind,
                        inputs |-> AllFalse(INPUTS(kind)),
                        outputs |-> AllFalse(OUTPUTS(kind))])
    /\ counter' = counter + 1
    /\ ret' = [op |-> "add_gate", arg |-> <<kind>>, val |-> << >>]
    /\ pre' = << >>
    /\ UNCHANGED <<connections, status>>
    /\ UNCHANGED main_vars

add_connection(from, output, to, input) ==
    /\ status = "running"
    /\ connections' = Append(connections, <<from, output, to, input>>)
    /\ ret' = [op |-> "add_connection", arg |-> <<from, output, to, input>>,
               val |-> << >>]
    /\ pre' = << >>
    /\ UNCHANGED <<counter, gates, status>>
    /\ UNCHANGED main_vars

get_gate_state(id) ==
    /\ status = "running"
    /\ IF id \in DOMAIN gates
       THEN /\ ret' = [op |-> "get_gate_state", arg |-> <<id>>,
                       val |-> <<gates[id].inputs, gates[id].outputs>>]
            /\ UNCHANGED status
       ELSE /\ ret' = [op |-> "get_gate_state", arg |-> <<id>>, val |-> << >>]
            /\ status' = "panicked"
    /\ pre' = << >>
    /\ UNCHANGED <<counter, gates, connections>>
    /\ UNCHANGED main_vars

get_gate_name(id) ==
    /\ status = "running"
    /\ IF id \in DOMAIN gates
       THEN /\ ret' = [op |-> "get_gate_name", arg |-> <<id>>,
                       val |-> <<gates[id].kind>>]
            /\ UNCHANGED status
       ELSE /\ ret' = [op |-> "get_gate_name", arg |-> <<id>>, val |-> << >>]
            /\ status' = "panicked"
    /\ pre' = << >>
    /\ UNCHANGED <<counter, gates, connections>>
    /\ UNCHANGED main_vars

\* simulate() draining the connection table as it walks it.
simulateDraining ==
    /\ status = "running"
    /\ LET p == Propagate(gates, connections, 1)
       IN  IF p.ok
           THEN /\ \E order \in Orders(DOMAIN gates) : gates' = Evaluate(p.gates, order)
                /\ UNCHANGED status
           ELSE /\ gates' = p.gates
                /\ status' = "panicked"
    /\ ret' = [op |-> "simulate", arg |-> << >>, val |-> << >>]
    /\ pre' = gates
    /\ connections' = << >>
    /\ UNCHANGED counter
    /\ UNCHANGED main_vars

simulate ==
    /\ status = "running"
    /\ LET p == Propagate(gates, connections, 1)
       IN  IF p.ok
           THEN /\ \E order \in Orders(DOMAIN gates) : gates' = Evaluate(p.gates, order)
                /\ UNCHANGED status
           ELSE /\ gates' = p.gates
                /\ status' = "panicked"
    /\ ret' = [op |-> "simulate", arg |-> << >>, val |-> << >>]
    /\ pre' = gates
    /\ UNCHANGED <<counter, connections>>
    /\ UNCHANGED main_vars

\* Gates plus connections.
Size == counter + Len(connections)

\* Arguments a caller may pass: every registered id and the first unminted
\* one; for a registered gate every slot it has and the first it has not.
ArgIds == (DOMAIN gates) \cup {counter}
ArgOutputs(id) == IF id \in DOMAIN gates THEN 0..OUTPUTS(gates[id].kind) ELSE {0}
ArgInputs(id) == IF id \in DOMAIN gates THEN 0..INPUTS(gates[id].kind) ELSE {0}

Next ==
    \/ /\ Size < MaxApiCircuit
       /\ \E kind \in Kinds : add_gate(kind)
    \/ /\ Size < MaxApiCircuit
       /\ \E from \in ArgIds, to \in ArgIds :
            \E output \in ArgOutputs(from), input \in ArgInputs(to) :
              add_connection(from, output, to, input)
    \/ \E id \in ArgIds : get_gate_state(id)
    \/ \E id \in ArgIds : get_gate_name(id)
    \/ simulate

Spec == Init /\ [][Next]_vars

\* ---------------------------------------------------------------- valid use

\* The place of a kind in the order in which main registers its gates.
Rank(kind) ==
    CASE kind = "AND"  -> 1
      [] kind = "OR"   -> 2
      [] kind = "NOT"  -> 3
      [] kind = "XOR"  -> 4
      [] kind = "AND3" -> 5

\* A caller that, like main, registers its gates in the order And, Or, Not, Xor,
\* And3 (any number of each) and, like main's hover selection, only names an
\* output slot and an input slot that registered gates have.  Every validly
\* wired circuit is one of these up to the numbering of its gates.
WiredNext ==
    \/ /\ Size < MaxCircuit
       /\ \E kind \in Kinds :
            /\ \A id \in DOMAIN gates : Rank(gates[id].kind) <= Rank(kind)
            /\ add_gate(kind)
    \/ /\ Size < MaxCircuit
       /\ \E from \in DOMAIN gates, to \in DOMAIN gates :
            \E output \in DOMAIN gates[from].outputs, input \in DOMAIN gates[to].inputs :
              add_connection(from, output, to, input)
    \/ simulate

WiredSpec == Init /\ [][WiredNext]_vars

\* ---------------------------------------------------------------- NOT circuits

\* A caller that registers NOT gates only and wires them to each other, no
\* wire twice: chains, rings and a gate fed back to itself.
ChainNext ==
    \/ /\ Size < MaxNotCircuit
       /\ add_gate("NOT")
    \/ /\ Size < MaxNotCircuit
       /\ \E from \in DOMAIN gates, to \in DOMAIN gates :
            /\ \A i \in 1..Len(connections) : connections[i] # <<from, 0, to, 0>>
            /\ add_connection(from, 0, to, 0)
    \/ simulate

ChainSpec == Init /\ [][ChainNext]_vars

\* ---------------------------------------------------------------- bench

\* Every GateState of a kind: any values in the input and output buffers.
GateStates ==
    UNION {{[kind |-> kind, inputs |-> in, outputs |-> out] :
              in \in [0..(INPUTS(kind) - 1) -> BOOLEAN],
              out \in [0..(OUTPUTS(kind) - 1) -> BOOLEAN]} : kind \in Kinds}

\* A bench for the gates' update functions: up to MaxBench unconnected gates of
\* any kinds, each with any values standing in its buffers.
BenchInit ==
    /\ counter \in 1..MaxBench
    /\ gates \in [0..(counter - 1) -> GateStates]
    /\ connections = << >>
    /\ status = "running"
    /\ ret = [op |-> "new", arg |-> << >>, val |-> << >>]
    /\ pre = << >>
    /\ MainLocals

\* On the bench only simulate() runs: with no connection it is the evaluate
\* phase alone.
BenchNext == simulate

BenchSpec == BenchInit /\ [][BenchNext]_vars

\* ---------------------------------------------------------------- main

\* The gates main registers, in its order; gate id is at position id + 1.
MainGates == <<"AND", "OR", "NOT", "XOR", "AND3">>

\* The keys of board_gates.
BoardIds == 0..(Len(MainGates) - 1)

\* The positions of the frequency slider the model takes (its range is 1..100).
Frequencies == {5, InitialFrequency}

\* let period = (1.0 / frequency) as f64, in quanta
Period(f) == QuantaPerSecond \div f

\* The state when main enters its loop: the five gates registered, nothing
\* wired, nothing selected.
MainInit ==
    /\ counter = Len(MainGates)
    /\ gates = [id \in BoardIds |->
                  [kind |-> MainGates[id + 1],
                   inputs |-> AllFalse(INPUTS(MainGates[id + 1])),
                   outputs |-> AllFalse(OUTPUTS(MainGates[id + 1]))]]
    /\ connections = << >>
    /\ status = "running"
    /\ ret = [op |-> "new", arg |-> << >>, val |-> << >>]
    /\ pre = << >>
    /\ MainLocals

\* let iterations = (elapsed / period) + elapsed_remainder, without the carried
\* remainder.
IterationsNoCarry(elapsed, period, remainder) == (elapsed * Scale) \div period

\* let iterations = (elapsed / period) + elapsed_remainder, in Scale-ths
Iterations(elapsed, period, remainder) == ((elapsed * Scale) \div period) + remainder

\* HoverInputs with the index counted from 1.
HoverInputsFromOne ==
    {h \in (BoardIds \cap DOMAIN gates) \X (1..3) : (h[2] - 1) \in DOMAIN gates[h[1]].inputs}

\* What draw_gate can report as GateMouseHover::Input for the gates drawn:
\* <<id, index>>, index from inputs.iter().enumerate().
HoverInputs ==
    {h \in (BoardIds \cap DOMAIN gates) \X (0..2) : h[2] \in DOMAIN gates[h[1]].inputs}

\* What draw_gate can report as GateMouseHover::Output for the gates drawn.
HoverOutputs ==
    {h \in (BoardIds \cap DOMAIN gates) \X (0..2) : h[2] \in DOMAIN gates[h[1]].outputs}

\* One pass of main's loop.  d1 is the time that has passed when get_time() is
\* read at line 272, d2 the time between that read and the read at line 275;
\* f is where the slider stands at the end of the frame; hover_input and
\* hover_output are the slots over which the button was pressed, << >> for
\* none (one gate reports at most one hover).  Times are in quanta, iterations
\* and elapsed_remainder in Scale-ths of a tick, so that the divisions of
\* lines 271-276 are exact.  The positions of the gates and dragging are left
\* out: they do not reach the simulation.
Frame(d1, d2, f, hover_input, hover_output) ==
    /\ status = "running"
    /\ hover_input \in {<< >>} \cup HoverInputs
    /\ hover_output \in {<< >>} \cup HoverOutputs
    /\ (hover_input # << >> /\ hover_output # << >>) => hover_input[1] # hover_output[1]
    /\ LET connect == selected_input # << >> /\ selected_output # << >>
           conns == IF connect
                    THEN Append(connections, <<selected_output[1], selected_output[2],
                                               selected_input[1], selected_input[2]>>)
                    ELSE connections
           input == IF connect THEN << >> ELSE selected_input
           output == IF connect THEN << >> ELSE selected_output
           period == Period(frequency)
           t1 == time + d1
           elapsed == t1 - last_update
           iterations == Iterations(elapsed, period, elapsed_remainder)
           update == iterations >= Scale
           n == IF update THEN iterations \div Scale ELSE 0
       IN  /\ connections' = conns
           /\ time' = IF update THEN t1 + d2 ELSE t1
           /\ last_update' = IF update THEN t1 + d2 ELSE last_update
           /\ elapsed_remainder' = IF update THEN iterations % Scale ELSE elapsed_remainder
           /\ \E order \in Orders(DOMAIN gates) :
                LET r == TickN(gates, conns, order, n)
                IN  /\ gates' = r.gates
                    /\ IF r.ok /\ BoardIds \subseteq DOMAIN gates
                       THEN /\ status' = "running"
                            /\ ticks' = ticks + n
                            /\ selected_input' =
                                 IF hover_input # << >> THEN hover_input ELSE input
                            /\ selected_output' =
                                 IF hover_output # << >> THEN hover_output ELSE output
                            /\ frequency' = f
                            /\ steady' = (steady /\ f = frequency)
                       ELSE /\ status' = "panicked"
                            /\ selected_input' = input
                            /\ selected_output' = output
                            /\ UNCHANGED <<ticks, frequency, steady>>
           /\ ret' = [op |-> "frame", arg |-> <<t1, hover_input, hover_output>>,
                      val |-> <<n>>]
    /\ pre' = << >>
    /\ UNCHANGED counter

\* Ten and a half periods of the initial frequency: a frame that stalls.
StallTime == (21 * Period(InitialFrequency)) \div 2

\* The lengths of a frame: up to MaxFrame quanta, or a stall.
FrameLengths == (0..MaxFrame) \cup {StallTime}

\* main with the pointer idle: frames of these lengths, the two reads of the
\* clock up to one quantum apart, the slider moved at will.
ClockNext ==
    \E d1 \in FrameLengths, d2 \in 0..1, f \in Frequencies :
      /\ time + d1 + d2 <= MaxTime
      /\ Frame(d1, d2, f, << >>, << >>)

ClockSpec == MainInit /\ [][ClockNext]_vars

\* The gates the user wires: MaxPointed of them, from the NOT gate on.
PointedIds ==
    {id \in BoardIds :
       /\ Rank(MainGates[id + 1]) >= Rank("NOT")
       /\ Rank(MainGates[id + 1]) < Rank("NOT") + MaxPointed}

\* main with a user who wires: frames of FrameTime each with the slider left
\* alone, the button pressed over any input and any output of the pointed gates
\* until MaxWires wires are drawn.
WiringNext ==
    \E hover_input \in {<< >>} \cup {h \in HoverInputs : h[1] \in PointedIds},
       hover_output \in {<< >>} \cup {h \in HoverOutputs : h[1] \in PointedIds} :
      /\ time + FrameTime <= MaxTime
      /\ (hover_input # << >> \/ hover_output # << >>)
           => Len(connections)
                + (IF selected_input # << >> /\ selected_output # << >> THEN 1 ELSE 0)
                < MaxWires
      /\ Frame(FrameTime, 0, frequency, hover_input, hover_output)

WiringSpec == MainInit /\ [][WiringNext]_vars

\* ---------------------------------------------------------------- claims

\* The rule of each kind as the catalog states it.
KindRule(kind, in) ==
    CASE kind = "AND"  -> in[0] /\ in[1]
      [] kind = "AND3" -> in[0] /\ in[1] /\ in[2]
      [] kind = "OR"   -> in[0] \/ in[1]
      [] kind = "XOR"  -> (in[0] /\ ~in[1]) \/ (~in[0] /\ in[1])
      [] kind = "NOT"  -> ~in[0]

\* The connections of `conns` (their indices) that end at input `slot` of `id`.
Writers(conns, id, slot) ==
    {i \in 1..Len(conns) : conns[i][3] = id /\ conns[i][4] = slot}

RECURSIVE LastFrom(_, _, _, _)
LastFrom(conns, id, slot, i) ==
    IF i = 0 THEN 0
    ELSE IF conns[i][3] = id /\ conns[i][4] = slot THEN i
    ELSE LastFrom(conns, id, slot, i - 1)

\* The last of them in insertion order, 0 when there is none.
LastWriter(conns, id, slot) == LastFrom(conns, id, slot, Len(conns))

\* Connection c names an output slot and an input slot of gates registered in g.
ValidWire(g, c) ==
    /\ c[1] \in DOMAIN g
    /\ c[3] \in DOMAIN g
    /\ c[2] \in 0..(OUTPUTS(g[c[1]].kind) - 1)
    /\ c[4] \in 0..(INPUTS(g[c[3]].kind) - 1)

\* This step is a call of simulate() that returned.
Ticked == ret'.op = "simulate" /\ status' = "running"

\* C1: a tick is a strict two-phase step.  After it, every input slot that some
\* connection ends at holds the output its source had BEFORE the tick, every
\* other input slot is as it was, and every gate's output is its kind's rule
\* applied to the gate's inputs as the tick left them.
TwoPhaseStep ==
    Ticked =>
      /\ DOMAIN gates' = DOMAIN gates
      /\ \A id \in DOMAIN gates :
           /\ \A slot \in DOMAIN gates[id].inputs :
                IF Writers(connections, id, slot) # {}
                THEN \E i \in Writers(connections, id, slot) :
                       gates'[id].inputs[slot]
                         = gates[connections[i][1]].outputs[connections[i][2]]
                ELSE gates'[id].inputs[slot] = gates[id].inputs[slot]
           /\ DOMAIN gates'[id].outputs = {0}
           /\ gates'[id].outputs[0] = KindRule(gates[id].kind, gates'[id].inputs)

TwoPhaseTick == [][TwoPhaseStep]_vars

\* C1 witness: a tick has run in which a gate's input took its source's old
\* output although that source's output changed in the same tick.
TwoPhaseWitness ==
    /\ ret.op = "simulate"
    /\ status = "running"
    /\ \E i \in 1..Len(connections) :
         LET c == connections[i]
         IN  /\ gates[c[3]].inputs[c[4]] = pre[c[1]].outputs[c[2]]
             /\ gates[c[1]].outputs[c[2]] # pre[c[1]].outputs[c[2]]

\* C2: add_connection with an unregistered gate id or a slot out of range
\* returns a WireError and changes nothing.
InvalidWiringStep ==
    (ret'.op = "add_connection" /\ ~ValidWire(gates, ret'.arg)) =>
      /\ ret'.val = <<"WireError">>
      /\ UNCHANGED <<counter, gates, connections, status>>

InvalidWiringRejected == [][InvalidWiringStep]_vars

\* C3: simulate() never panics, whatever calls came before it.
TickNeverFails == ~(ret.op = "simulate" /\ status = "panicked")

\* C4: every connection of the table names an output slot and an input slot of
\* registered gates.
ConnectionsValid ==
    \A i \in 1..Len(connections) : ValidWire(gates, connections[i])

\* ---- chains of NOT gates

\* Gate b's input 0 is fed by gate a's output 0: a connection a.out0 -> b.in0
\* is in the table and no later connection overrides it.
Link(a, b) ==
    LET i == LastWriter(connections, b, 0)
    IN  i # 0 /\ connections[i] = <<a, 0, b, 0>>

\* The gate whose output 0 feeds input 0 of b, if there is one.
Feeders(b) ==
    LET i == LastWriter(connections, b, 0)
    IN  IF i # 0 /\ connections[i][2] = 0 THEN {connections[i][1]} ELSE {}

\* The gates n ticks from now.  The order in which a tick visits the gate map
\* does not change what it leaves (C7), so the ticks ahead visit it in
\* ascending order.
After(n) == TickN(gates, connections, Ascending(DOMAIN gates), n).gates

RECURSIVE Neg(_, _)
\* v passed through n NOT gates
Neg(v, n) == IF n = 0 THEN v ELSE Neg(~v, n - 1)

\* A, B, C are three NOT gates wired A.out0 -> B.in0 and B.out0 -> C.in0.
Chain3(a, b, c) ==
    /\ a # b /\ b # c /\ a # c
    /\ gates[a].kind = "NOT" /\ gates[b].kind = "NOT" /\ gates[c].kind = "NOT"
    /\ Link(a, b)
    /\ Link(b, c)

\* C5 as stated: a change driven into A's input shows at C's output after
\* exactly 2 ticks, and not yet after 1.  Ticks are counted from the state in
\* which the new value stands at A's input without A having been evaluated on
\* it: the first tick writes it into A's input buffer.
ChainOfThreeTwoTicks ==
    \A c \in DOMAIN gates : \A b \in Feeders(c) : \A a \in Feeders(b) :
      Chain3(a, b, c) =>
        LET s1 == After(1)
            s2 == After(2)
        IN  (/\ gates[a].outputs[0] = ~gates[a].inputs[0]
             /\ s1[a].inputs[0] # gates[a].inputs[0])
              => /\ s2[c].outputs[0] = ~s1[a].inputs[0]
                 /\ s1[c].outputs[0] # ~s1[a].inputs[0]

\* C5 as amended: in a chain A -> B -> C of NOT gates the value a tick writes
\* into A's input is at C's output (negated three times) after exactly 3 ticks,
\* that tick included; when the value is a change and A's output showed the
\* old input, C's output after 2 ticks still shows the old input.
ChainOfThreeDelay ==
    \A c \in DOMAIN gates : \A b \in Feeders(c) : \A a \in Feeders(b) :
      Chain3(a, b, c) =>
        LET s1 == After(1)
            s2 == After(2)
            s3 == After(3)
        IN  /\ s3[c].outputs[0] = ~s1[a].inputs[0]
            /\ (/\ gates[a].outputs[0] = ~gates[a].inputs[0]
                /\ s1[a].inputs[0] # gates[a].inputs[0])
                 => /\ s2[c].outputs[0] = ~gates[a].inputs[0]
                    /\ s2[c].outputs[0] # ~s1[a].inputs[0]

\* C5 witness: a tick has just written a changed value into the input of the
\* front gate of a three-gate chain whose output showed the old input.
ChainOfThreeWitness ==
    /\ ret.op = "simulate"
    /\ status = "running"
    /\ \E a \in DOMAIN gates, b \in DOMAIN gates, c \in DOMAIN gates :
         /\ Chain3(a, b, c)
         /\ pre[a].outputs[0] = ~pre[a].inputs[0]
         /\ gates[a].inputs[0] # pre[a].inputs[0]

RECURSIVE PathTo(_, _)
\* The gates in series that end at `last`, n of them, front gate first; << >>
\* when fewer than n gates feed `last` in series.
PathTo(last, n) ==
    IF n = 1 THEN <<last>>
    ELSE IF Feeders(last) = {} THEN << >>
    ELSE LET up == PathTo(CHOOSE a \in Feeders(last) : TRUE, n - 1)
         IN  IF up # << >> THEN Append(up, last) ELSE << >>

\* The chains of n distinct single-input gates in series.
Chains(n) ==
    {p \in {PathTo(last, n) : last \in DOMAIN gates} :
       /\ p # << >>
       /\ \A i, j \in 1..n : i # j => p[i] # p[j]
       /\ \A i \in 1..n : INPUTS(gates[p[i]].kind) = 1}

RECURSIVE Run(_, _)
\* The gates now and after each of the next n ticks: <<now, after 1, ..., after n>>.
Run(g, n) ==
    IF n = 0 THEN <<g>>
    ELSE <<g>> \o Run(Tick(g, connections, Ascending(DOMAIN g)).gates, n - 1)

\* C6: in a chain of N single-input gates in series the value a tick writes
\* into the front gate's input is at the last gate's output after exactly N
\* ticks, that tick included: after N - 1 ticks the last output is still what
\* the front gate's old output gives, whatever is written into its input.
ChainOfNDelay ==
    LET chains == [n \in 1..counter |-> Chains(n)]
        longest == Cardinality({n \in 1..counter : chains[n] # {}})
        s == Run(gates, longest)
    IN  \A n \in 1..longest : \A p \in chains[n] :
          /\ s[n + 1][p[n]].outputs[0] = Neg(s[2][p[1]].inputs[0], n)
          /\ s[n][p[n]].outputs[0] = Neg(gates[p[1]].outputs[0], n - 1)
          /\ (/\ gates[p[1]].outputs[0] = ~gates[p[1]].inputs[0]
              /\ s[2][p[1]].inputs[0] # gates[p[1]].inputs[0])
               => s[n][p[n]].outputs[0] # Neg(s[2][p[1]].inputs[0], n)

\* C6 witness: a tick has just written a changed value into the front input of
\* a chain of two or more gates whose last output still shows the old value.
ChainOfNWitness ==
    /\ ret.op = "simulate"
    /\ status = "running"
    /\ \E n \in 2..counter : \E p \in Chains(n) :
         /\ pre[p[1]].outputs[0] = ~pre[p[1]].inputs[0]
         /\ gates[p[1]].inputs[0] # pre[p[1]].inputs[0]
         /\ gates[p[n]].outputs[0] = Neg(pre[p[1]].outputs[0], n - 1)

\* ---- reordering, several writers, feedback, queries

\* The connection table in every order.
ConnectionOrders(conns) ==
    {[i \in 1..Len(conns) |-> conns[perm[i]]] : perm \in Permutations(1..Len(conns))}

\* No two connections end at the same input slot.
SeparateDestinations(conns) ==
    \A i, j \in 1..Len(conns) :
      i # j => <<conns[i][3], conns[i][4]>> # <<conns[j][3], conns[j][4]>>

\* What one tick may leave of g: the table taken in any order, the gates
\* visited in any of the orders of Orders.
TickOutcomes(g) ==
    LET propagated == {Propagate(g, other, 1) : other \in ConnectionOrders(connections)}
    IN  UNION {IF p.ok
               THEN {[ok |-> TRUE, gates |-> Evaluate(p.gates, order)] :
                       order \in Orders(DOMAIN g)}
               ELSE {p} : p \in propagated}

RECURSIVE Outcomes(_, _)
\* What n ticks may leave of the results in `from`, the two orders chosen anew
\* at every tick; a tick that panicked is followed by no other.
Outcomes(from, n) ==
    IF n = 0 THEN from
    ELSE Outcomes(UNION {IF r.ok THEN TickOutcomes(r.gates) ELSE {r} : r \in from}, n - 1)

\* C7: when no two connections end at the same slot, N ticks leave one and the
\* same result (the buffers of every gate, or a panic) whatever the order of
\* the connection table and whatever the order in which the gates are
\* visited, for N up to TicksAhead from any reachable state.
ReorderingDeterministic ==
    SeparateDestinations(connections) =>
      \A n \in 1..TicksAhead :
        Outcomes({[ok |-> TRUE, gates |-> gates]}, n)
          = {TickN(gates, connections, Ascending(DOMAIN gates), n)}

\* C7 witness: after a tick, a table of two or more connections to separate
\* slots whose first and last connection both carried TRUE into an input.
ReorderingWitness ==
    /\ ret.op = "simulate"
    /\ status = "running"
    /\ Len(connections) >= 2
    /\ SeparateDestinations(connections)
    /\ connections[1] # connections[Len(connections)]
    /\ \A i \in {1, Len(connections)} :
         /\ pre[connections[i][1]].outputs[connections[i][2]]
         /\ gates[connections[i][3]].inputs[connections[i][4]]

\* C8: of several connections into one input slot the one added last decides:
\* after a tick the slot holds the output its source had before the tick.
LastWriterStep ==
    Ticked =>
      \A id \in DOMAIN gates : \A slot \in DOMAIN gates[id].inputs :
        LET i == LastWriter(connections, id, slot)
        IN  i # 0 => gates'[id].inputs[slot]
                       = gates[connections[i][1]].outputs[connections[i][2]]

LastWriterWins == [][LastWriterStep]_vars

\* C8 witness: a tick has run over a slot with two writers whose sources had
\* different outputs before the tick, and the slot holds the later one's.
LastWriterWitness ==
    /\ ret.op = "simulate"
    /\ status = "running"
    /\ \E i, j \in 1..Len(connections) :
         /\ i < j
         /\ connections[i][3] = connections[j][3]
         /\ connections[i][4] = connections[j][4]
         /\ j = LastWriter(connections, connections[j][3], connections[j][4])
         /\ pre[connections[i][1]].outputs[connections[i][2]]
              # pre[connections[j][1]].outputs[connections[j][2]]
         /\ gates[connections[j][3]].inputs[connections[j][4]]
              = pre[connections[j][1]].outputs[connections[j][2]]

\* C9: a NOT gate whose output 0 feeds its own input 0 alternates: every tick
\* returns and leaves the gate's output the negation of what it was.
FeedbackStep ==
    ret'.op = "simulate" =>
      /\ status' = "running"
      /\ \A id \in DOMAIN gates :
           (gates[id].kind = "NOT" /\ Link(id, id))
             => gates'[id].outputs[0] = ~gates[id].outputs[0]

FeedbackAlternates == [][FeedbackStep]_vars

\* C9 witness: a NOT gate fed back to itself has gone from FALSE to TRUE and,
\* in the tick just run, back to FALSE.
FeedbackWitness ==
    /\ ret.op = "simulate"
    /\ status = "running"
    /\ \E id \in DOMAIN gates :
         /\ gates[id].kind = "NOT"
         /\ Link(id, id)
         /\ pre[id].outputs[0]
         /\ ~pre[id].inputs[0]
         /\ ~gates[id].outputs[0]

\* C10: get_gate_state and get_gate_name with an id never registered return a
\* LookupError and change nothing; get_gate_state with a registered id returns
\* that gate's input and output buffers.
UnknownIdStep ==
    ret'.op \in {"get_gate_state", "get_gate_name"} =>
      /\ UNCHANGED <<counter, gates, connections, status>>
      /\ IF ret'.arg[1] \in DOMAIN gates
         THEN ret'.op = "get_gate_state"
                => ret'.val = <<gates[ret'.arg[1]].inputs, gates[ret'.arg[1]].outputs>>
         ELSE ret'.val = <<"LookupError">>

UnknownIdIsAnError == [][UnknownIdStep]_vars

\* C11: add_gate gives the new gate the id `counter`, greater than every id
\* issued before and not in the map; the ids registered are exactly
\* 0..counter-1 after every step; the new gate has all-false buffers of its
\* kind's sizes and every gate registered before is kept as it was.
FreshIdStep ==
    /\ DOMAIN gates' = 0..(counter' - 1)
    /\ ret'.op = "add_gate" =>
         /\ counter \notin DOMAIN gates
         /\ \A id \in DOMAIN gates : id < counter
         /\ counter' = counter + 1
         /\ DOMAIN gates' = (DOMAIN gates) \cup {counter}
         /\ gates'[counter].kind = ret'.arg[1]
         /\ gates'[counter].inputs = [i \in 0..(INPUTS(ret'.arg[1]) - 1) |-> FALSE]
         /\ gates'[counter].outputs = [i \in 0..(OUTPUTS(ret'.arg[1]) - 1) |-> FALSE]
         /\ \A id \in DOMAIN gates : gates'[id] = gates[id]

FreshIds == [][FreshIdStep]_vars

\* C11 witness: a gate has just been registered beside an older gate whose
\* output a tick has already set.
FreshIdsWitness ==
    /\ ret.op = "add_gate"
    /\ counter >= 2
    /\ \E id \in DOMAIN gates : id < counter - 1 /\ gates[id].outputs[0]

\* The arities of the catalog: <<inputs, outputs>>.
Arity(kind) ==
    CASE kind = "AND"  -> <<2, 1>>
      [] kind = "AND3" -> <<3, 1>>
      [] kind = "OR"   -> <<2, 1>>
      [] kind = "XOR"  -> <<2, 1>>
      [] kind = "NOT"  -> <<1, 1>>

\* C12: every gate's input buffer and output buffer have the lengths of its
\* kind's arities and hold booleans, in every reachable state.
BuffersSized ==
    \A id \in DOMAIN gates :
      /\ DOMAIN gates[id].inputs = 0..(Arity(gates[id].kind)[1] - 1)
      /\ DOMAIN gates[id].outputs = 0..(Arity(gates[id].kind)[2] - 1)
      /\ \A i \in DOMAIN gates[id].inputs : gates[id].inputs[i] \in BOOLEAN
      /\ \A i \in DOMAIN gates[id].outputs : gates[id].outputs[i] \in BOOLEAN

\* C12 witness: a tick has run over a connection and written TRUE into an
\* input of a gate with more than one input.
BuffersSizedWitness ==
    /\ ret.op = "simulate"
    /\ connections # << >>
    /\ \E id \in DOMAIN gates :
         /\ Arity(gates[id].kind)[1] > 1
         /\ \E i \in DOMAIN gates[id].inputs : gates[id].inputs[i]

\* C13: an input slot that no connection of the table ends at is FALSE.
UndrivenFalse ==
    \A id \in DOMAIN gates : \A slot \in DOMAIN gates[id].inputs :
      Writers(connections, id, slot) = {} => gates[id].inputs[slot] = FALSE

\* C13 witness: ticks have run and a gate has one input driven TRUE and
\* another input that nothing drives.
UndrivenFalseWitness ==
    /\ ret.op = "simulate"
    /\ status = "running"
    /\ \E id \in DOMAIN gates : \E a, b \in DOMAIN gates[id].inputs :
         /\ Writers(connections, id, a) # {}
         /\ gates[id].inputs[a]
         /\ Writers(connections, id, b) = {}

\* C14: one evaluate phase sets each gate's single output to its kind's rule
\* on the values at the gate's own inputs (AND, AND3, OR, XOR, NOT), whatever
\* the other gates hold, and leaves the inputs as they were.
TruthTableStep ==
    ret'.op = "simulate" =>
      \A id \in DOMAIN gates :
        /\ gates'[id].inputs = gates[id].inputs
        /\ gates'[id].outputs = [i \in {0} |-> KindRule(gates[id].kind, gates[id].inputs)]

TruthTables == [][TruthTableStep]_vars

\* C14 witness: an evaluation has raised the output of an AND3 whose three
\* inputs are TRUE, and one has lowered the output of an XOR with both inputs
\* TRUE.
TruthTablesWitness ==
    /\ ret.op = "simulate"
    /\ \E id \in DOMAIN gates :
         /\ gates[id].kind = "AND3"
         /\ \A i \in 0..2 : gates[id].inputs[i]
         /\ ~pre[id].outputs[0]
         /\ gates[id].outputs[0]
    /\ \E id \in DOMAIN gates :
         /\ gates[id].kind = "XOR"
         /\ gates[id].inputs[0] /\ gates[id].inputs[1]
         /\ pre[id].outputs[0]
         /\ ~gates[id].outputs[0]

\* C17: a tick leaves the counter, the registered ids, every gate's kind and
\* the connection table as they were, and leaves every input slot that no
\* connection ends at with its value; this whether the tick returns or panics.
TickFrameStep ==
    ret'.op = "simulate" =>
      /\ counter' = counter
      /\ DOMAIN gates' = DOMAIN gates
      /\ connections' = connections
      /\ \A id \in DOMAIN gates :
           /\ gates'[id].kind = gates[id].kind
           /\ DOMAIN gates'[id].inputs = DOMAIN gates[id].inputs
           /\ DOMAIN gates'[id].outputs = DOMAIN gates[id].outputs
           /\ \A slot \in DOMAIN gates[id].inputs :
                Writers(connections, id, slot) = {}
                  => gates'[id].inputs[slot] = gates[id].inputs[slot]

TickFrame == [][TickFrameStep]_vars

\* C17 witness: a tick over a non-empty connection table has returned and has
\* changed a driven input and an output.
TickFrameWitness ==
    /\ ret.op = "simulate"
    /\ status = "running"
    /\ connections # << >>
    /\ \E id \in DOMAIN gates : gates[id].inputs # pre[id].inputs
    /\ \E id \in DOMAIN gates : gates[id].outputs # pre[id].outputs

\* The gates with a connection into gate id.
Preds(id) == {connections[i][1] : i \in {j \in 1..Len(connections) : connections[j][3] = id}}

RECURSIVE Upstream(_, _)
\* S and the gates from which S is reached over at most n connections.
Upstream(S, n) ==
    IF n = 0 THEN S ELSE Upstream(S \cup UNION {Preds(x) : x \in S}, n - 1)

\* No gate's output reaches its own input, directly or through other gates.
Acyclic == \A id \in DOMAIN gates : id \notin Upstream(Preds(id), counter)

RECURSIVE Depth(_)
\* The number of gates on the longest wiring path that ends at gate id (the
\* wiring being acyclic).
Depth(id) ==
    IF Preds(id) = {} THEN 1
    ELSE LET d == {Depth(p) : p \in Preds(id)}
         IN  1 + CHOOSE m \in d : \A k \in d : k <= m

\* L: the number of gates on the longest wiring path.
LongestPath ==
    IF DOMAIN gates = {} THEN 0
    ELSE LET d == {Depth(id) : id \in DOMAIN gates}
         IN  CHOOSE m \in d : \A k \in d : k <= m

\* g is a fixed point: a further tick leaves every buffer unchanged.
Settled(g) ==
    LET r == Tick(g, connections, Ascending(DOMAIN g))
    IN  r.ok /\ r.gates = g

\* C19: when the wiring is acyclic, L ticks with nothing added in between
\* bring the simulation to a fixed point, L the number of gates on the longest
\* wiring path.
AcyclicSettles ==
    Acyclic =>
      LET r == TickN(gates, connections, Ascending(DOMAIN gates), LongestPath)
      IN  r.ok /\ Settled(r.gates)

\* C19 witness: an acyclic wiring with a path of two gates or more that is not
\* yet at a fixed point after L - 1 ticks.
AcyclicSettlesWitness ==
    /\ connections # << >>
    /\ Acyclic
    /\ LongestPath >= 2
    /\ ~Settled(TickN(gates, connections, Ascending(DOMAIN gates), LongestPath - 1).gates)

\* C15: with ticks_due = elapsed / period + carried remainder, a frame with
\* ticks_due >= 1 runs floor(ticks_due) ticks, carries the fractional part and
\* resets the reference to now; a frame with ticks_due < 1 runs no tick and
\* changes neither; at 10 Hz, 1.05 s and no remainder give 10 ticks and a
\* remainder of 0.5.  ticks_due is D / Q below, elapsed being in quanta and the
\* remainder in Scale-ths.
ClockConversionStep ==
    ret'.op = "frame" =>
      LET elapsed == ret'.arg[1] - last_update
          D == elapsed * frequency * Scale + elapsed_remainder * QuantaPerSecond
          Q == QuantaPerSecond * Scale
      IN  /\ IF D >= Q
             THEN /\ ticks' - ticks = D \div Q
                  /\ ret'.val = <<D \div Q>>
                  /\ elapsed_remainder' * QuantaPerSecond = D % Q
                  /\ last_update' = time'
                  /\ gates' = TickN(gates, connections', Ascending(DOMAIN gates), D \div Q).gates
             ELSE /\ ticks' = ticks
                  /\ ret'.val = <<0>>
                  /\ elapsed_remainder' = elapsed_remainder
                  /\ last_update' = last_update
                  /\ gates' = gates
          /\ (frequency = 10 /\ 20 * elapsed = 21 * QuantaPerSecond /\ elapsed_remainder = 0)
               => (ticks' - ticks = 10 /\ 2 * elapsed_remainder' = Scale)

ClockConversion == [][ClockConversionStep]_vars

\* C15 witness: the first frame came 1.05 s after the start, at 10 Hz: 10
\* ticks have run and half a tick is carried.
ClockConversionWitness ==
    /\ ret.op = "frame"
    /\ 20 * ret.arg[1] = 21 * QuantaPerSecond
    /\ ticks = 10
    /\ ret.val = <<10>>
    /\ 2 * elapsed_remainder = Scale

\* C16: at a fixed frequency, after every frame the ticks run so far plus the
\* carried remainder plus the time since the reference over the period equal
\* the time since the start over the period, and the remainder is in [0, 1).
\* Both sides are multiplied by QuantaPerSecond * Scale.
NoDrift ==
    steady =>
      /\ elapsed_remainder \in 0..(Scale - 1)
      /\ ticks * QuantaPerSecond * Scale
           + elapsed_remainder * QuantaPerSecond
           + (time - last_update) * frequency * Scale
         = time * frequency * Scale

\* C18: in main every connection stored runs from an output slot of a
\* registered gate to an input slot of a registered gate, no frame panics, and
\* a frame that adds a connection adds the one selected and drops both
\* selections (what it leaves selected is what the pointer picked afterwards).
WiredByHoverStep ==
    /\ status' = "running"
    /\ \A i \in 1..Len(connections') : ValidWire(gates', connections'[i])
    /\ connections' # connections =>
         /\ selected_input # << >> /\ selected_output # << >>
         /\ connections' = Append(connections, <<selected_output[1], selected_output[2],
                                                 selected_input[1], selected_input[2]>>)
         /\ selected_input' = ret'.arg[2]
         /\ selected_output' = ret'.arg[3]
    /\ (selected_input # << >> /\ selected_output # << >>) => connections' # connections

WiredByHover == [][WiredByHoverStep]_vars

\* C18 witness: a frame has added a wire, run ticks over it that carried TRUE
\* into an input, and left nothing selected.
WiredByHoverWitness ==
    /\ ret.op = "frame"
    /\ status = "running"
    /\ connections # << >>
    /\ ret.val[1] >= 1
    /\ selected_input = << >>
    /\ selected_output = << >>
    /\ \E id \in DOMAIN gates : \E i \in DOMAIN gates[id].inputs : gates[id].inputs[i]

====
